---- MODULE Spec2Model ----
(***************************************************************************)
(* Isolated stars (stars.py): isolated(star_list, dist_min) loads the      *)
(* points into a Graph one by one, compares each new node with the nodes   *)
(* already in graph.nodes, clears is_iso flags, and collects the indices   *)
(* of the nodes whose flag is still True.                                  *)
(*                                                                         *)
(* Numbers.  A coordinate and dist_min are numbers with Scale steps to the *)
(* unit: the model value v stands for v / Scale.  math.sqrt(r) is          *)
(* represented by its radicand r, an integer, and compared exactly.        *)
(***************************************************************************)
EXTENDS Integers, Sequences, FiniteSets, TLC

\* Steps to the unit of the numbers supplied to the program.
Scale == 2

\* Whole coordinates are 0..MaxX and 0..MaxY, lists have at most MaxLen
\* points, dist_min is one of 0 .. MaxDist / Scale.
MaxX == 3
MaxY == 1
MaxLen == 3
MaxDist == 6

VARIABLES
    star_list,       \* isolated's argument: the sequence of coordinate pairs
    dist_min,        \* isolated's argument: the threshold
    pc,              \* position in isolated / load_graph
    index,           \* enumerate's counter in load_graph
    new_node,        \* name of the node load_graph is inserting
    nodes,           \* graph.nodes, in the set's iteration order
    edges,           \* graph.edges: node name -> list of WeightedEdge
    pos,             \* position of the running set iterator
    isolated_stars   \* isolated's result list

vars == <<star_list, dist_min, pc, index, new_node, nodes, edges, pos, isolated_stars>>

\* No node is being inserted.
NoNode == <<>>

(***************************************************************************)
(* Inputs.                                                                 *)
(***************************************************************************)
\* The x values: the whole numbers 0..MaxX and the fraction -1/Scale, which
\* int() truncates to 0.
XS == {Scale * k : k \in 0..MaxX} \cup {-1}

YS == {Scale * k : k \in 0..MaxY}

Points == XS \X YS

Thresholds == 0..MaxDist

StarLists == UNION {[1..n -> Points] : n \in 0..MaxLen}

(***************************************************************************)
(* Node, WeightedEdge.                                                     *)
(***************************************************************************)
\* Variant: indices counted from 1.
Node_one_based(name, idx) == [name |-> name, index |-> idx + 1, is_iso |-> TRUE]

Node(name, idx) == [name |-> name, index |-> idx, is_iso |-> TRUE]

\* Variant: the flag is flipped.
change_iso_toggle(node) == [node EXCEPT !.is_iso = ~@]

change_iso(node) == [node EXCEPT !.is_iso = FALSE]

get_iso(node) == node.is_iso

\* Variant: every node differs from every node, itself included.
node_ne_always(a, b) == TRUE

\* Node.__eq__ / __ne__: nodes are equal when their names are.
node_ne(a, b) == a.name # b.name

WeightedEdge(src, dest, dist) == [src |-> src, dest |-> dest, dist |-> dist]

(***************************************************************************)
(* calculate_dist.                                                         *)
(***************************************************************************)
\* int(v): truncation toward zero.
int(v) == IF v >= 0 THEN v \div Scale ELSE -((-v) \div Scale)

\* Variant: the y term is left out.
calculate_dist_x_only(node_a, node_b) ==
    LET x1 == int(node_a.name[1])
        x2 == int(node_b.name[1])
    IN  (x1 - x2) * (x1 - x2)

\* The radicand of math.sqrt((x1-x2)**2 + (y1-y2)**2).
calculate_dist(node_a, node_b) ==
    LET x1 == int(node_a.name[1])
        y1 == int(node_a.name[2])
        x2 == int(node_b.name[1])
        y2 == int(node_b.name[2])
    IN  (x1 - x2) * (x1 - x2) + (y1 - y2) * (y1 - y2)

\* Variant: distance <= iso_distance.
less_or_equal(radicand, threshold) ==
    /\ threshold >= 0
    /\ radicand * Scale * Scale <= threshold * threshold

\* distance < iso_distance, for distance = sqrt(radicand) and
\* iso_distance = threshold / Scale.
less_than(radicand, threshold) ==
    /\ threshold > 0
    /\ radicand * Scale * Scale < threshold * threshold

(***************************************************************************)
(* Graph.                                                                  *)
(***************************************************************************)
Range(s) == {s[i] : i \in DOMAIN s}

\* The orders in which a set can be iterated.
Orders(S) ==
    {s \in [1..Cardinality(S) -> S] : \A i, j \in DOMAIN s : s[i] = s[j] => i = j}

\* Variant: no membership test.
has_node_never(ns, node) == FALSE

has_node(ns, node) == \E i \in DOMAIN ns : ns[i].name = node.name

\* self.nodes.add(node): the set with the node, in any iteration order.
add_node(ns, node) == Orders(Range(ns) \cup {node})

\* self.edges[source].append(WeightedEdge(source, destination, total_distance))
add_edge(es, edge) ==
    [es EXCEPT ![edge.src] = Append(@, WeightedEdge(edge.src, edge.dest, edge.dist))]

\* The node of the set with the given name.
NodeOf(ns, name) == CHOOSE n \in Range(ns) : n.name = name

(***************************************************************************)
(* load_graph: the body of the inner loop for one old_node.                *)
(***************************************************************************)
\* Variant: no guard on the new node's flag.
guard_iso_always(node) == TRUE

\* if new_node.get_iso() is True
guard_iso(node) == get_iso(node) = TRUE

\* new_node.change_iso(); old_node.change_iso()
mark(ns, new_name, old_name) ==
    [i \in DOMAIN ns |->
        IF ns[i].name = new_name \/ ns[i].name = old_name
        THEN change_iso(ns[i]) ELSE ns[i]]

\* The nodes after new_node met old_node.
visit(ns, new_name, old_name, iso_distance) ==
    LET source == NodeOf(ns, new_name)
        destination == NodeOf(ns, old_name)
        distance == calculate_dist(source, destination)
    IN  IF guard_iso(source) /\ less_than(distance, iso_distance)
        THEN mark(ns, new_name, old_name)
        ELSE ns

(***************************************************************************)
(* The state machine.                                                      *)
(***************************************************************************)
Init ==
    /\ star_list \in StarLists
    /\ dist_min \in Thresholds
    /\ pc = "for"
    /\ index = 0
    /\ new_node = NoNode
    /\ nodes = <<>>
    /\ edges = <<>>
    /\ pos = 0
    /\ isolated_stars = <<>>

\* for index, tuple in enumerate(list): Node(tuple, index); graph.add_node
AddNode ==
    /\ pc = "for"
    /\ index < Len(star_list)
    /\ LET node == Node(star_list[index + 1], index)
       IN  /\ ~has_node(nodes, node)
           /\ nodes' \in add_node(nodes, node)
           /\ edges' = (node.name :> <<>>) @@ edges
           /\ new_node' = node.name
    /\ pos' = 1
    /\ pc' = "inner"
    /\ UNCHANGED <<star_list, dist_min, index, isolated_stars>>

\* graph.add_node raises ValueError('Duplicate node'); isolated propagates it
AddDuplicate ==
    /\ pc = "for"
    /\ index < Len(star_list)
    /\ has_node(nodes, Node(star_list[index + 1], index))
    /\ new_node' = star_list[index + 1]
    /\ pc' = "error"
    /\ UNCHANGED <<star_list, dist_min, index, nodes, edges, pos, isolated_stars>>

\* for old_node in graph.nodes: one iteration
Visit ==
    /\ pc = "inner"
    /\ pos <= Len(nodes)
    /\ LET old_node == nodes[pos]
           source == NodeOf(nodes, new_node)
       IN  IF node_ne(old_node, source)
           THEN /\ edges' = add_edge(edges,
                        WeightedEdge(source.name, old_node.name,
                                     calculate_dist(source, old_node)))
                /\ nodes' = visit(nodes, new_node, old_node.name, dist_min)
           ELSE UNCHANGED <<nodes, edges>>
    /\ pos' = pos + 1
    /\ UNCHANGED <<star_list, dist_min, pc, index, new_node, isolated_stars>>

\* the inner loop ends; enumerate advances
EndVisits ==
    /\ pc = "inner"
    /\ pos > Len(nodes)
    /\ index' = index + 1
    /\ new_node' = NoNode
    /\ pos' = 0
    /\ pc' = "for"
    /\ UNCHANGED <<star_list, dist_min, nodes, edges, isolated_stars>>

\* return graph; isolated_stars = []
Loaded ==
    /\ pc = "for"
    /\ index = Len(star_list)
    /\ isolated_stars' = <<>>
    /\ pos' = 1
    /\ pc' = "collect"
    /\ UNCHANGED <<star_list, dist_min, index, new_node, nodes, edges>>

\* for node in isolated_graph.nodes: one iteration
Collect ==
    /\ pc = "collect"
    /\ pos <= Len(nodes)
    /\ isolated_stars' =
          IF get_iso(nodes[pos]) = TRUE
          THEN Append(isolated_stars, nodes[pos].index)
          ELSE isolated_stars
    /\ pos' = pos + 1
    /\ UNCHANGED <<star_list, dist_min, pc, index, new_node, nodes, edges>>

\* return isolated_stars
Return ==
    /\ pc = "collect"
    /\ pos > Len(nodes)
    /\ pc' = "done"
    /\ UNCHANGED <<star_list, dist_min, index, new_node, nodes, edges, pos, isolated_stars>>

Next ==
    \/ AddNode
    \/ AddDuplicate
    \/ Visit
    \/ EndVisits
    \/ Loaded
    \/ Collect
    \/ Return

Spec == Init /\ [][Next]_vars

\* The call runs to completion: it is synchronous and single-threaded.
FairSpec == Spec /\ WF_vars(Next)

(***************************************************************************)
(* load_graph as a function of the order in which each new node meets the  *)
(* old ones: order[k + 1] lists the names met by the node of index k.      *)
(***************************************************************************)
RECURSIVE inner_loop(_, _, _, _)
inner_loop(ns, new_name, olds, iso_distance) ==
    IF olds = <<>>
    THEN ns
    ELSE inner_loop(visit(ns, new_name, Head(olds), iso_distance),
                    new_name, Tail(olds), iso_distance)

RECURSIVE load_graph(_, _, _, _)
load_graph(ns, k, order, iso_distance) ==
    IF k = Len(order)
    THEN ns
    ELSE load_graph(inner_loop(ns, star_list[k + 1], order[k + 1], iso_distance),
                    k + 1, order, iso_distance)

\* The indices isolated() collects from a loaded graph.
isolated_indices(ns) == {ns[i].index : i \in {j \in DOMAIN ns : get_iso(ns[j]) = TRUE}}

(***************************************************************************)
(* Vocabulary of the properties.                                           *)
(***************************************************************************)
N == Len(star_list)

Result == Range(isolated_stars)

Whole(v) == IF v >= 0 THEN v \div Scale ELSE -((-v) \div Scale)

\* The square of the distance between two coordinate pairs, as the distance
\* evaluator defines it (coordinates taken as integers).
SqDistance(p, q) ==
    (Whole(p[1]) - Whole(q[1])) * (Whole(p[1]) - Whole(q[1]))
        + (Whole(p[2]) - Whole(q[2])) * (Whole(p[2]) - Whole(q[2]))

\* distance(p, q) < d / Scale
Closer(p, q, d) == d > 0 /\ SqDistance(p, q) * Scale * Scale < d * d

\* Every coordinate of the input is a whole number: the distance the evaluator
\* computes is then the Euclidean distance of the points as supplied.
WholeInput ==
    \A i \in DOMAIN star_list :
        star_list[i][1] % Scale = 0 /\ star_list[i][2] % Scale = 0

Distinct(list) == \A i, j \in DOMAIN list : list[i] = list[j] => i = j

\* The indices whose point is at distance >= d from every other point.
TrulyIsolated(d) ==
    {i \in 0..(N - 1) :
        \A j \in 0..(N - 1) : j # i => ~Closer(star_list[i + 1], star_list[j + 1], d)}

\* The nodes as created, all flags True.
Fresh == [i \in DOMAIN nodes |-> [nodes[i] EXCEPT !.is_iso = TRUE]]

\* The order in which this run's new nodes met the old ones, read off the edges.
RecordedOrder ==
    [k \in 1..N |-> [j \in 1..Len(edges[star_list[k]]) |-> edges[star_list[k]][j].dest]]

\* Old nodes met in the order of their insertion.
InsertionOrder == [k \in 1..N |-> [j \in 1..(k - 1) |-> star_list[j]]]

NonIsolated(ns) == {ns[i].index : i \in {j \in DOMAIN ns : ~ns[j].is_iso}}

EdgeCount(names) ==
    LET RECURSIVE Sum(_)
        Sum(S) == IF S = {} THEN 0
                  ELSE LET x == CHOOSE y \in S : TRUE
                       IN  Len(edges[x]) + Sum(S \ {x})
    IN  Sum(names)

(***************************************************************************)
(* C1. isolated(points, dist_min) returns exactly the indices of the       *)
(* points at distance >= dist_min from every other point: both members of  *)
(* every pair closer than dist_min are left out.  Stated for inputs of     *)
(* whole coordinates.                                                      *)
(***************************************************************************)
C1_ExactIsolatedSet ==
    (pc = "done" /\ WholeInput) => Result = TrulyIsolated(dist_min)

(***************************************************************************)
(* C2. Monotonicity in the threshold: with the input and the visiting      *)
(* order fixed, an index that is non-isolated at dist_min is non-isolated  *)
(* at every larger threshold.  Stated for inputs of whole coordinates.     *)
(***************************************************************************)
C2_MonotoneInThreshold ==
    (pc = "done" /\ WholeInput) =>
        \A d2 \in Thresholds :
            d2 >= dist_min =>
                NonIsolated(nodes) \subseteq
                    NonIsolated(load_graph(Fresh, 0, RecordedOrder, d2))

(***************************************************************************)
(* C3. The order in which a new point visits the points inserted before    *)
(* it does not change the result: every run returns the indices that the   *)
(* run visiting old points in insertion order returns.  Stated for inputs  *)
(* of whole coordinates.                                                   *)
(***************************************************************************)
C3_OrderIndependent ==
    (pc = "done" /\ WholeInput) =>
        Result = isolated_indices(load_graph(Fresh, 0, InsertionOrder, dist_min))

(***************************************************************************)
(* C4. Duplicate rejection: a coordinate pair equal to an earlier one      *)
(* raises at its insertion; the duplicate is not added to the point set    *)
(* and is compared with nothing, the call stops there and returns no       *)
(* result, not even a partial one.                                         *)
(***************************************************************************)
C4_DuplicateRejected ==
    /\ ~Distinct(star_list) => pc \in {"for", "inner", "error"} /\ isolated_stars = <<>>
    /\ pc = "error" =>
          /\ index < N
          /\ \E j \in 1..index : star_list[j] = star_list[index + 1]
          /\ Distinct(SubSeq(star_list, 1, index))
          /\ Len(nodes) = index
          /\ \A i \in DOMAIN nodes : nodes[i].index < index
          /\ EdgeCount(DOMAIN edges) * 2 = index * (index - 1)
          /\ \A name \in DOMAIN edges :
                Len(edges[name]) = NodeOf(nodes, name).index
          /\ ~ENABLED Next

C4_Witness == pc = "error" /\ index = 2 /\ N = 3

(***************************************************************************)
(* C5. Threshold boundary: of two points exactly d apart, both are         *)
(* isolated with dist_min = d and neither is with any dist_min > d.        *)
(***************************************************************************)
C5_ThresholdBoundary ==
    (pc = "done" /\ N = 2) =>
        LET r == SqDistance(star_list[1], star_list[2])
        IN  /\ (dist_min >= 0 /\ dist_min * dist_min = r * Scale * Scale)
                  => Result = {0, 1}
            /\ (dist_min >= 0 /\ dist_min * dist_min > r * Scale * Scale)
                  => Result = {}

C5_Witness ==
    /\ pc = "done"
    /\ N = 2
    /\ SqDistance(star_list[1], star_list[2]) > 0
    /\ dist_min * dist_min = SqDistance(star_list[1], star_list[2]) * Scale * Scale
    /\ Result = {0, 1}

(***************************************************************************)
(* C6. The isolated flag is monotonic: True when the point is created, and *)
(* once False never True again (marking a non-isolated point again leaves  *)
(* it False).                                                              *)
(***************************************************************************)
C6_FlagMonotonic ==
    [][\A j \in DOMAIN nodes' :
          IF \E i \in DOMAIN nodes : nodes[i].name = nodes'[j].name
          THEN \A i \in DOMAIN nodes :
                  (nodes[i].name = nodes'[j].name /\ nodes[i].is_iso = FALSE)
                      => nodes'[j].is_iso = FALSE
          ELSE nodes'[j].is_iso = TRUE]_vars

\* A new node that is still isolated meets a close old node that is already
\* non-isolated.
C6_Witness ==
    /\ pc = "inner"
    /\ pos <= Len(nodes)
    /\ nodes[pos].name # new_node
    /\ nodes[pos].is_iso = FALSE
    /\ NodeOf(nodes, new_node).is_iso = TRUE
    /\ Closer(new_node, nodes[pos].name, dist_min)

(***************************************************************************)
(* C7. Index preservation: a point's index is its 0-based position in the  *)
(* input, given at insertion and never changed; every returned index is a  *)
(* position of the input, occurs once, and names the point supplied there. *)
(***************************************************************************)
C7_IndexInv ==
    /\ \A i \in DOMAIN nodes :
          /\ nodes[i].index \in 0..(N - 1)
          /\ nodes[i].index <= index
          /\ star_list[nodes[i].index + 1] = nodes[i].name
    /\ \A i, j \in DOMAIN nodes : nodes[i].index = nodes[j].index => i = j
    /\ \A i \in DOMAIN isolated_stars :
          /\ isolated_stars[i] \in 0..(N - 1)
          /\ \E k \in DOMAIN nodes :
                /\ nodes[k].index = isolated_stars[i]
                /\ nodes[k].name = star_list[isolated_stars[i] + 1]
                /\ nodes[k].is_iso = TRUE
    /\ \A i, j \in DOMAIN isolated_stars : isolated_stars[i] = isolated_stars[j] => i = j

C7_IndexPreserved ==
    /\ []C7_IndexInv
    /\ [][\A i \in DOMAIN nodes : \A j \in DOMAIN nodes' :
            nodes[i].name = nodes'[j].name => nodes[i].index = nodes'[j].index]_vars

\* A result whose order differs from the input's.
C7_Witness ==
    /\ pc = "done"
    /\ Len(isolated_stars) >= 2
    /\ isolated_stars[1] > isolated_stars[2]

(***************************************************************************)
(* C8. Every unordered pair of distinct points is evaluated exactly once   *)
(* and no point against itself: the point of index k is evaluated against  *)
(* the k points inserted before it, with an edge from it to each; after N  *)
(* insertions there are N(N-1)/2 evaluations, and the pass terminates.     *)
(***************************************************************************)
C8_PairsInv ==
    /\ \A name \in DOMAIN edges :
          LET n == NodeOf(nodes, name)
              es == edges[name]
              met == IF pc = "inner" /\ name = new_node
                     THEN {nodes[i].name : i \in 1..(pos - 1)} \ {name}
                     ELSE {nodes[i].name : i \in {j \in DOMAIN nodes : nodes[j].index < n.index}}
          IN  /\ \A j \in DOMAIN es :
                    /\ es[j].src = name
                    /\ es[j].dest # name
                    /\ es[j].dist = SqDistance(name, es[j].dest)
                    /\ NodeOf(nodes, es[j].dest).index < n.index
              /\ \A i, j \in DOMAIN es : es[i].dest = es[j].dest => i = j
              /\ {es[j].dest : j \in DOMAIN es} = met
    /\ DOMAIN edges = {nodes[i].name : i \in DOMAIN nodes}
    /\ pc \in {"collect", "done"} => EdgeCount(DOMAIN edges) * 2 = N * (N - 1)

C8_EachPairOnce == []C8_PairsInv /\ <>(pc \in {"done", "error"})

C8_Witness == pc = "done" /\ N = 3 /\ EdgeCount(DOMAIN edges) = 3

(***************************************************************************)
(* C9. No false marking: a point whose flag is False has another inserted  *)
(* point at distance < dist_min; so every point at distance >= dist_min    *)
(* from all others is in the result, and the number of non-isolated points *)
(* is never exactly 1.                                                     *)
(***************************************************************************)
C9_NoFalseMarking ==
    /\ \A i \in DOMAIN nodes :
          nodes[i].is_iso = FALSE =>
              \E j \in DOMAIN nodes :
                  j # i /\ Closer(nodes[i].name, nodes[j].name, dist_min)
    /\ pc = "done" => TrulyIsolated(dist_min) \subseteq Result
    /\ Cardinality(NonIsolated(nodes)) # 1

C9_Witness ==
    /\ pc = "done"
    /\ N = 3
    /\ Cardinality(NonIsolated(nodes)) = 2
    /\ Cardinality(TrulyIsolated(dist_min)) = 1

(***************************************************************************)
(* C10. During the insertion of one new point flags change only while the  *)
(* new point's flag is still True: an insertion clears the flag of at most *)
(* one old point, the first one visited that is closer than dist_min, and  *)
(* every other old point keeps its flag, closer than dist_min or not.      *)
(***************************************************************************)
Changed ==
    {nodes[i].name : i \in {k \in DOMAIN nodes :
        \E j \in DOMAIN nodes' :
            nodes'[j].name = nodes[k].name /\ nodes'[j].is_iso # nodes[k].is_iso}}

ReplayAgrees ==
    pc = "done" => load_graph(Fresh, 0, RecordedOrder, dist_min) = nodes

====
